---- MODULE Spec2Model ----
(***************************************************************************)
(* The React context demo: App owns the theme state, UserProvider owns the *)
(* user state and publishes {user, setUser} through UserContext, Header    *)
(* and Profile consume it with useContext.                                 *)
(*                                                                         *)
(* One browser event is dispatched at a time (pc = "idle" between events). *)
(* A handler queues a state update; the component owning the state then    *)
(* re-renders, followed by its subtree in depth-first order, each render   *)
(* being one step.  The rendered output (dom) and the values each          *)
(* component captured in its last render are state.                        *)
(***************************************************************************)
EXTENDS Integers, Sequences, FiniteSets, TLC

VARIABLES
    theme,        \* App: useState("dark")
    appUser,      \* App: useState<User | null>(null), never passed on
    user,         \* UserProvider: useState<User | null>(null)
    themeQueue,   \* setTheme calls not yet rendered
    userQueue,    \* setUser calls not yet rendered
    provided,     \* the consumers are nested in a UserProvider
    ctx,          \* what useContext(UserContext) returns
    props,        \* the props each child received at its parent's last render
    consumer,     \* what Header and Profile destructured from the context
    dom,          \* the rendered output
    pc,           \* "idle", or the component that renders next
    ev,           \* the event being dispatched, or the last one dispatched
    renders,      \* renders of each component during that event
    activations,  \* activations of the login/logout control so far
    written,      \* the value each activation passed to setUser, in order
    error         \* exception thrown by an event handler

vars == <<theme, appUser, user, themeQueue, userQueue, provided, ctx, props,
          consumer, dom, pc, ev, renders, activations, written, error>>

\* Activations of the login/logout control explored.
MaxActivations == 4

----------------------------------------------------------------------------
\* JavaScript values

NULL == [tag |-> "null"]
UNDEFINED == [tag |-> "undefined"]
setUserFn == [tag |-> "function", name |-> "setUser"]
setThemeFn == [tag |-> "function", name |-> "setTheme"]

\* obj.key: a property the object lacks reads as undefined
Get(obj, key) == IF key \in DOMAIN obj THEN obj[key] ELSE UNDEFINED

\* truthiness of an object, null or undefined
Truthy(v) == v # NULL /\ v # UNDEFINED

Components ==
    {"App", "UserProvider", "Header", "ThemedButton", "DarkModeToggle", "Profile"}

----------------------------------------------------------------------------
\* data.ts

defaultUser ==
    [name |-> "Duane",
     interests |-> <<"Coding", "Biking", "Words ending in 'ing'">>]

----------------------------------------------------------------------------
\* context/user.tsx

\* React.createContext({} as UserContextType): the value read with no provider
UserContextDefault == [k \in {} |-> UNDEFINED]

InitialUserMutant == defaultUser
\* useState<User | null>(null) in UserProvider
InitialUser == NULL

\* <UserContext.Provider value={{ user, setUser }}>
ProviderValue(u) == [user |-> u, setUser |-> setUserFn]

----------------------------------------------------------------------------
\* App.tsx

\* useState("dark") in App
InitialTheme == "dark"

\* <main className={theme}>
MainClass(t) == t

\* <Header theme={theme} setTheme={setTheme} />
HeaderProps(t) == [theme |-> t, setTheme |-> setThemeFn]

\* <Profile theme={theme} />
ProfileProps(t) == [theme |-> t]

UserProviderRemounted(u) == InitialUser
\* <UserProvider> keeps its type and place in what App returns, so the state
\* it holds survives App's render
UserProviderState(u) == u

----------------------------------------------------------------------------
\* components/Header.tsx

HeaderUserMutant(c, au) == au
\* const { user, setUser } = useContext(UserContext): the user Header sees
\* (c is the context value; au is App's own user state, which Header is not given)
HeaderUser(c, au) == Get(c, "user")

handleLoginArgOtherUser(u) ==
    IF Truthy(u) THEN NULL ELSE [defaultUser EXCEPT !.interests = <<>>]
handleLoginArgNoLogout(u) == defaultUser
handleLoginArgNoLogin(u) == NULL
\* handleLogin: the value passed to setUser
handleLoginArg(u) == IF Truthy(u) THEN NULL ELSE defaultUser

HeaderLabelMutant(u) == IF Truthy(u) THEN "Login" ELSE "Logout"
\* {user ? "Logout" : "Login"}
HeaderLabel(u) == IF Truthy(u) THEN "Logout" ELSE "Login"

----------------------------------------------------------------------------
\* components/ThemedButton.tsx

\* <button className={theme} {...props} />
ThemedButtonClass(t) == t

----------------------------------------------------------------------------
\* components/DarkModeToggle.tsx

ToggleValueMutant(checked) == IF checked THEN "light" ELSE "dark"
\* e.target.checked ? "dark" : "light"
ToggleValue(checked) == IF checked THEN "dark" ELSE "light"

\* checked={theme === "dark"}
ToggleChecked(t) == t = "dark"

----------------------------------------------------------------------------
\* components/Profile.tsx

Placeholder == [kind |-> "h2", text |-> "Please Login To View Profile"]

ProfileOutputMutant(u, t) ==
    IF ~Truthy(u)
    THEN Placeholder
    ELSE [kind |-> "div",
          heading |-> u.name \o "'s Profile",
          Interests |-> [interests |-> SubSeq(u.interests, 1, Len(u.interests) - 1),
                         theme |-> t]]
\* what Profile returns for the user it read and the theme it was given
ProfileOutput(u, t) ==
    IF ~Truthy(u)
    THEN Placeholder
    ELSE [kind |-> "div",
          heading |-> u.name \o "'s Profile",
          Interests |-> [interests |-> u.interests, theme |-> t]]

----------------------------------------------------------------------------
\* The state before the first render

NoProps == [theme |-> UNDEFINED]
NotRendered == [kind |-> "none"]

InitWith(p) ==
    /\ theme = InitialTheme
    /\ appUser = NULL
    /\ user = InitialUser
    /\ themeQueue = <<>>
    /\ userQueue = <<>>
    /\ provided = p
    /\ ctx = UserContextDefault
    /\ props = [c \in Components |-> NoProps]
    /\ consumer = [Header |-> [user |-> UNDEFINED, setUser |-> UNDEFINED],
                   Profile |-> [user |-> UNDEFINED]]
    /\ dom = [mainClass |-> "", button |-> NotRendered,
              checkbox |-> NotRendered, profile |-> NotRendered]
    /\ pc = "App"
    /\ ev = [kind |-> "mount", prevUser |-> InitialUser, prevTheme |-> InitialTheme,
             checked |-> FALSE, closureUser |-> UNDEFINED]
    /\ renders = [c \in Components |-> 0]
    /\ activations = 0
    /\ written = <<>>
    /\ error = "none"

Init == InitWith(TRUE)

InitNoProvider == InitWith(FALSE)

----------------------------------------------------------------------------
\* useState

\* the state a component reads when it renders: the last value queued, if any
Apply(queue, s) == IF queue = <<>> THEN s ELSE queue[Len(queue)]

\* App's setTheme: a value identical to the state is dropped, another one is
\* queued and App renders next
setTheme(v) ==
    IF v = theme
    THEN UNCHANGED <<themeQueue, pc>>
    ELSE /\ themeQueue' = Append(themeQueue, v)
         /\ pc' = "App"

\* UserProvider's setUser: likewise, and UserProvider renders next
setUser(v) ==
    IF v = user
    THEN UNCHANGED <<userQueue, pc>>
    ELSE /\ userQueue' = Append(userQueue, v)
         /\ pc' = "UserProvider"

Rendered(c) == [renders EXCEPT ![c] = @ + 1]

StartEvent(kind, checked) ==
    /\ ev' = [kind |-> kind, prevUser |-> user, prevTheme |-> theme,
              checked |-> checked, closureUser |-> consumer.Header.user]
    /\ renders' = [c \in Components |-> 0]

----------------------------------------------------------------------------
\* Event handlers

\* Header.handleLogin, the onClick of the ThemedButton
handleLogin ==
    /\ pc = "idle"
    /\ activations < MaxActivations
    /\ activations' = activations + 1
    /\ StartEvent("click", dom.checkbox.checked)
    /\ IF consumer.Header.setUser = setUserFn
       THEN /\ setUser(handleLoginArg(consumer.Header.user))
            /\ written' = Append(written, handleLoginArg(consumer.Header.user))
            /\ UNCHANGED error
       ELSE \* setUser is undefined: calling it throws
            /\ error' = "TypeError"
            /\ UNCHANGED <<userQueue, pc, written>>
    /\ UNCHANGED <<theme, appUser, user, themeQueue, provided, ctx, props,
                   consumer, dom>>

\* DarkModeToggle.handleToggleTheme, the onChange of the checkbox: the browser
\* has flipped the checkbox when the handler reads e.target.checked
handleToggleTheme ==
    /\ pc = "idle"
    /\ LET checked == ~dom.checkbox.checked
       IN /\ StartEvent("toggle", checked)
          /\ setTheme(ToggleValue(checked))
    /\ UNCHANGED <<theme, appUser, user, userQueue, provided, ctx, props,
                   consumer, dom, activations, written, error>>

\* the setTheme prop (setTheme(theme: string): void) called with any string
ThemeStrings == {"dark", "light", "solarized"}

setThemeCall ==
    /\ pc = "idle"
    /\ \E v \in ThemeStrings :
          /\ StartEvent("setTheme", dom.checkbox.checked)
          /\ setTheme(v)
    /\ UNCHANGED <<theme, appUser, user, userQueue, provided, ctx, props,
                   consumer, dom, activations, written, error>>

----------------------------------------------------------------------------
\* Renders

App ==
    /\ pc = "App"
    /\ theme' = Apply(themeQueue, theme)
    /\ themeQueue' = <<>>
    /\ dom' = [dom EXCEPT !.mainClass = MainClass(theme')]
    /\ props' = [props EXCEPT !.Header = HeaderProps(theme'),
                              !.Profile = ProfileProps(theme')]
    /\ user' = UserProviderState(user)
    /\ renders' = Rendered("App")
    /\ pc' = IF provided THEN "UserProvider" ELSE "Header"
    /\ UNCHANGED <<appUser, userQueue, provided, ctx, consumer, ev,
                   activations, written, error>>

UserProvider ==
    /\ pc = "UserProvider"
    /\ user' = Apply(userQueue, user)
    /\ userQueue' = <<>>
    /\ ctx' = ProviderValue(user')
    /\ renders' = Rendered("UserProvider")
    /\ pc' = "Header"
    /\ UNCHANGED <<theme, appUser, themeQueue, provided, props, consumer, dom,
                   ev, activations, written, error>>

Header ==
    /\ pc = "Header"
    /\ LET u == HeaderUser(ctx, appUser)
       IN /\ consumer' = [consumer EXCEPT
                 !.Header = [user |-> u, setUser |-> Get(ctx, "setUser")]]
          /\ props' = [props EXCEPT
                 !.ThemedButton = [theme |-> props.Header.theme,
                                   children |-> HeaderLabel(u)],
                 !.DarkModeToggle = [theme |-> props.Header.theme,
                                     setTheme |-> props.Header.setTheme]]
    /\ renders' = Rendered("Header")
    /\ pc' = "ThemedButton"
    /\ UNCHANGED <<theme, appUser, user, themeQueue, userQueue, provided, ctx,
                   dom, ev, activations, written, error>>

ThemedButton ==
    /\ pc = "ThemedButton"
    /\ dom' = [dom EXCEPT !.button =
                 [kind |-> "button",
                  className |-> ThemedButtonClass(props.ThemedButton.theme),
                  label |-> props.ThemedButton.children]]
    /\ renders' = Rendered("ThemedButton")
    /\ pc' = "DarkModeToggle"
    /\ UNCHANGED <<theme, appUser, user, themeQueue, userQueue, provided, ctx,
                   props, consumer, ev, activations, written, error>>

DarkModeToggle ==
    /\ pc = "DarkModeToggle"
    /\ dom' = [dom EXCEPT !.checkbox =
                 [kind |-> "input",
                  checked |-> ToggleChecked(props.DarkModeToggle.theme)]]
    /\ renders' = Rendered("DarkModeToggle")
    /\ pc' = "Profile"
    /\ UNCHANGED <<theme, appUser, user, themeQueue, userQueue, provided, ctx,
                   props, consumer, ev, activations, written, error>>

Profile ==
    /\ pc = "Profile"
    /\ LET u == Get(ctx, "user")
       IN /\ consumer' = [consumer EXCEPT !.Profile = [user |-> u]]
          /\ dom' = [dom EXCEPT !.profile = ProfileOutput(u, props.Profile.theme)]
    /\ renders' = Rendered("Profile")
    /\ pc' = "idle"
    /\ UNCHANGED <<theme, appUser, user, themeQueue, userQueue, provided, ctx,
                   props, ev, activations, written, error>>

----------------------------------------------------------------------------
\* Specifications

\* the application as written
Next ==
    \/ handleLogin
    \/ handleToggleTheme
    \/ App
    \/ UserProvider
    \/ Header
    \/ ThemedButton
    \/ DarkModeToggle
    \/ Profile

Spec == Init /\ [][Next]_vars

\* the same tree with or without the UserProvider around Header and Profile
SpecAnyTree == (Init \/ InitNoProvider) /\ [][Next]_vars

\* the application, with the setTheme prop open to any caller
NextAnyTheme ==
    \/ Next
    \/ setThemeCall

SpecAnyTheme == Init /\ [][NextAnyTheme]_vars

Idle == pc = "idle"

ValidThemes == {"dark", "light"}

----------------------------------------------------------------------------
\* C1: right after App and its UserProvider have mounted, before any event,
\* the shared user value is null and the theme is "dark"; so are they while
\* the first render is under way.
InitialState ==
    ev.kind = "mount" =>
        /\ user = NULL
        /\ theme = "dark"
        /\ Idle => /\ Get(ctx, "user") = NULL
                   /\ consumer.Header.user = NULL
                   /\ consumer.Profile.user = NULL
                   /\ dom.mainClass = "dark"

MountedNoEvent == Idle /\ ev.kind = "mount" /\ renders["UserProvider"] = 1

\* C2: when the login control was activated with the shared user value null
\* and the renders it caused are over, the shared value is exactly the default
\* record, and Header and Profile each rendered once and read that record.
LoginTransition ==
    (Idle /\ ev.kind = "click" /\ ev.prevUser = NULL) =>
        /\ user = [name |-> "Duane",
                   interests |-> <<"Coding", "Biking", "Words ending in 'ing'">>]
        /\ Get(ctx, "user") = user
        /\ consumer.Header.user = user
        /\ consumer.Profile.user = user
        /\ renders["Header"] = 1
        /\ renders["Profile"] = 1

LoggedInByClick ==
    Idle /\ ev.kind = "click" /\ ev.prevUser = NULL /\ user = defaultUser

\* C3: when the logout control was activated with the shared user value a User
\* record and the renders it caused are over, the shared value is null, and
\* Header and Profile each rendered once and read null.
LogoutTransition ==
    (Idle /\ ev.kind = "click" /\ ev.prevUser # NULL) =>
        /\ user = NULL
        /\ Get(ctx, "user") = NULL
        /\ consumer.Header.user = NULL
        /\ consumer.Profile.user = NULL
        /\ renders["Header"] = 1
        /\ renders["Profile"] = 1

LoggedOutByClick ==
    Idle /\ ev.kind = "click" /\ ev.prevUser = defaultUser /\ user = NULL

\* a record with no interests, which the application itself never holds
SyntheticUser == [name |-> "Ada", interests |-> <<>>]

\* C4: between events Profile shows the placeholder, and no Interests, exactly
\* when the shared user value is null; when it is a record Profile shows
\* "<name>'s Profile" and hands Interests the record's interests, unchanged,
\* with the current theme.  Given a record with no interests, Profile hands
\* Interests the empty sequence.
ProfileRenderConsistency ==
    /\ ProfileOutput(SyntheticUser, theme).heading = "Ada's Profile"
    /\ ProfileOutput(SyntheticUser, theme).Interests = [interests |-> <<>>, theme |-> theme]
    /\ Idle =>
           /\ (user = NULL) <=> (dom.profile = Placeholder)
           /\ (user = NULL) <=> ("Interests" \notin DOMAIN dom.profile)
           /\ dom.profile = Placeholder =>
                  dom.profile.text = "Please Login To View Profile"
           /\ user # NULL =>
                  /\ dom.profile.heading = user.name \o "'s Profile"
                  /\ dom.profile.Interests.interests = user.interests
                  /\ dom.profile.Interests.theme = theme
           /\ user = defaultUser =>
                  /\ dom.profile.heading = "Duane's Profile"
                  /\ dom.profile.Interests.interests =
                         <<"Coding", "Biking", "Words ending in 'ing'">>

ProfileShowsUser ==
    /\ Idle
    /\ user = defaultUser
    /\ theme = "light"
    /\ dom.profile.kind = "div"
    /\ Len(dom.profile.Interests.interests) = 3

\* C5: between events the Header control reads "Login" exactly when Profile
\* shows the placeholder and "Logout" exactly when Profile shows the user's
\* name; both read the same user value, the one UserProvider holds.
HeaderProfileAgree ==
    Idle =>
        /\ dom.button.label \in {"Login", "Logout"}
        /\ (dom.button.label = "Login") <=> (dom.profile = Placeholder)
        /\ (dom.button.label = "Logout") <=> (dom.profile.kind = "div")
        /\ (dom.button.label = "Login") <=> (user = NULL)
        /\ consumer.Header.user = consumer.Profile.user
        /\ consumer.Header.user = user

BothShowLoggedIn ==
    Idle /\ dom.button.label = "Logout" /\ dom.profile.kind = "div"

ThemeDomain ==
    /\ theme \in ValidThemes
    /\ (Idle /\ ev.kind = "toggle") =>
           theme = IF ev.checked THEN "dark" ELSE "light"
    /\ Idle =>
           /\ dom.checkbox.checked <=> (theme = "dark")
           /\ dom.mainClass = theme
           /\ dom.button.className = theme
           /\ props.Profile.theme = theme
           /\ user # NULL => dom.profile.Interests.theme = theme

ToggledToLight ==
    /\ Idle
    /\ ev.kind = "toggle"
    /\ ~ev.checked
    /\ theme = "light"
    /\ dom.button.className = "light"

\* C8: with no enclosing UserProvider, once Header has read the context a
\* missing-provider error has been raised.
MissingProviderFailsFast ==
    (~provided /\ pc \notin {"App", "Header"}) => error = "MissingProvider"

InvalidThemeRejected ==
    Idle =>
        /\ dom.mainClass \in ValidThemes
        /\ dom.button.className \in ValidThemes

\* C11: the login control is a strict toggle: the n-th activation writes the
\* default record when n is odd and null when n is even, whatever toggles come
\* between; once its renders are over the shared user value is the value it
\* wrote; the shared value is never anything but null or the default record;
\* and every activation from the third on writes what the one two before wrote.
StrictToggle ==
    /\ user \in {NULL, defaultUser}
    /\ Len(written) = activations
    /\ \A n \in 1..Len(written) :
           /\ written[n] = IF n % 2 = 1 THEN defaultUser ELSE NULL
           /\ n >= 3 => written[n] = written[n - 2]
    /\ Idle => user = IF activations % 2 = 1 THEN defaultUser ELSE NULL
    /\ (Idle /\ written # <<>>) => user = written[Len(written)]

ThirdActivationThenToggle ==
    /\ Idle
    /\ activations = 3
    /\ ev.kind = "toggle"
    /\ theme = "light"
    /\ user = defaultUser

====
